---- MODULE Spec2Model ----
(***************************************************************************)
(* Model of the covey.town private-space access control:                   *)
(*   - CoveySpaceController (services/roomService/src/lib), the per-space  *)
(*     state machine: players, whitelist, host, presenter, privacy flag;   *)
(*   - the space request handlers (spaceCreateHandler ... spaceUpdate-     *)
(*     Handler), which translate requests into controller calls and        *)
(*     response envelopes;                                                 *)
(*   - the collaborators the repository does not ship with these files     *)
(*     (CoveySpacesStore, CoveyTownController), modelled from spec.md.     *)
(* A Player object is identified with its id: the town creates one Player  *)
(* per id, and an id that left the town never comes back.                  *)
(***************************************************************************)
EXTENDS Naturals, Sequences, FiniteSets

\* ------------------------------------------------------------------ bounds
\* Longest id list handed to updateWhitelist.
MaxWhitelistLen == 2
\* Longest whitelist carried by an update request.
MaxRequestWhitelistLen == 1

\* ---------------------------------------------------------------- universe
PlayerIDs == {"p1", "p2", "p3"}
Null == "null"
Undefined == "undefined"
NoController == [absent |-> TRUE]

SpaceIDs == {"S1"}
\* Space ids a request can carry: a known one, or the empty string.
RequestSpaceIDs == SpaceIDs \cup {""}
TownIDs == {"T1"}
\* Town ids a request can carry: the town, or an id of no town.
RequestTownIDs == TownIDs \cup {"T0"}

\* Presenter ids a caller passes: none, or one player id (resolvable or not,
\* as the town changes).
PresenterInputs == {Null, "p1"}

IDLists == UNION {[1..k -> PlayerIDs] : k \in 0..MaxWhitelistLen}
RequestIDLists == UNION {[1..k -> PlayerIDs] : k \in 0..MaxRequestWhitelistLen}

VARIABLES
  townPlayers,  \* ids of the players in the town (CoveyTownController.players)
  departed,     \* ids of players that left the town
  spaces,       \* the spaces store: space id -> controller, or NoController
  last,         \* the controller call made by the last step, and its result
  envelope,     \* the response envelope of the last handler call
  scenario      \* position in the scripted end-to-end run, and its H, X, Y

vars == <<townPlayers, departed, spaces, last, envelope, scenario>>

\* -------------------------------------------------------- array helpers
includes(arr, x) == \E i \in DOMAIN arr : arr[i] = x
push(arr, x) == Append(arr, x)
Members(arr) == {arr[i] : i \in DOMAIN arr}

\* ------------------------------------------------- CoveySpaceController
\* The controller right after its constructor.
NewController == [players |-> <<>>, whitelist |-> <<>>, isPrivate |-> FALSE,
                  spaceHostID |-> Null, presenterID |-> Null]

playerFromID(playerID) ==
  IF playerID \in townPlayers THEN playerID ELSE Undefined

isPlayerInSpace(this, playerID) == includes(this.players, playerID)

\* publicizeSpace without the reset of _spaceHostID.
publicizeSpace_keepsHost(this) ==
  [this EXCEPT !.isPrivate = FALSE, !.presenterID = Null, !.whitelist = <<>>]

\* publicizeSpace without the reset of _whitelist.
publicizeSpace_keepsWhitelist(this) ==
  [this EXCEPT !.isPrivate = FALSE, !.presenterID = Null, !.spaceHostID = Null]

publicizeSpace(this) ==
  [this EXCEPT !.isPrivate = FALSE, !.presenterID = Null,
               !.spaceHostID = Null, !.whitelist = <<>>]

\* disconnectAllPlayersExceptP that filters the players instead of replacing
\* them: a claimant who was not in the space is not put into it.
disconnectAllPlayersExceptP_filter(this, p) ==
  IF playerFromID(p) # Undefined
  THEN [this EXCEPT !.players = SelectSeq(@, LAMBDA q : q = p)]
  ELSE this

disconnectAllPlayersExceptP(this, p) ==
  IF playerFromID(p) # Undefined THEN [this EXCEPT !.players = <<p>>] ELSE this

\* Each method yields the controller after the call, what it returned and
\* the return statement reached. What a method returns is a list: its boolean,
\* or nothing for a void method and for addPlayerToWhiteList, which hands out
\* the controller's own _whitelist array (read it in the controller).
Void == <<>>
Result(this, ret, path) ==
  [this |-> this, ret |-> ret, path |-> path]

\* addPlayer that looks at the host before it looks at the players: the
\* admit of a member opens an abandoned space.
addPlayer_hostTestFirst(this, newPlayerID) ==
  LET newPlayer == playerFromID(newPlayerID) IN
  IF newPlayer # Undefined
  THEN IF this.isPrivate /\ this.spaceHostID # Null
          /\ playerFromID(this.spaceHostID) = Undefined
       THEN Result([publicizeSpace(this) EXCEPT !.players =
                      IF includes(@, newPlayer) THEN @ ELSE push(@, newPlayer)],
                   <<TRUE>>, "hostGone")
       ELSE IF includes(this.players, newPlayer)
       THEN Result(this, <<TRUE>>, "already")
       ELSE IF this.isPrivate = FALSE
       THEN Result([this EXCEPT !.players = push(@, newPlayer)], <<TRUE>>, "public")
       ELSE IF this.spaceHostID # Null
       THEN IF includes(this.whitelist, newPlayer) \/ this.spaceHostID = newPlayerID
            THEN Result([this EXCEPT !.players = push(@, newPlayer)], <<TRUE>>, "allowed")
            ELSE Result(this, <<FALSE>>, "denied")
       ELSE Result(this, <<FALSE>>, "noHost")
  ELSE Result(this, <<FALSE>>, "unknown")

\* addPlayer with the whitelist test dropped: a private space admits anyone.
addPlayer_ignoresWhitelist(this, newPlayerID) ==
  LET newPlayer == playerFromID(newPlayerID) IN
  IF newPlayer # Undefined
  THEN IF includes(this.players, newPlayer)
       THEN Result(this, <<TRUE>>, "already")
       ELSE IF this.isPrivate = FALSE
       THEN Result([this EXCEPT !.players = push(@, newPlayer)], <<TRUE>>, "public")
       ELSE IF this.spaceHostID # Null
       THEN IF playerFromID(this.spaceHostID) = Undefined
            THEN Result([publicizeSpace(this) EXCEPT !.players = push(@, newPlayer)],
                        <<TRUE>>, "hostGone")
            ELSE Result([this EXCEPT !.players = push(@, newPlayer)], <<TRUE>>, "allowed")
       ELSE Result(this, <<FALSE>>, "noHost")
  ELSE Result(this, <<FALSE>>, "unknown")

\* addPlayer that admits into an abandoned space without publicizing it.
addPlayer_noPublicize(this, newPlayerID) ==
  LET newPlayer == playerFromID(newPlayerID) IN
  IF newPlayer # Undefined
  THEN IF includes(this.players, newPlayer)
       THEN Result(this, <<TRUE>>, "already")
       ELSE IF this.isPrivate = FALSE
       THEN Result([this EXCEPT !.players = push(@, newPlayer)], <<TRUE>>, "public")
       ELSE IF this.spaceHostID # Null
       THEN IF playerFromID(this.spaceHostID) = Undefined
            THEN Result([this EXCEPT !.players = push(@, newPlayer)], <<TRUE>>, "hostGone")
            ELSE IF includes(this.whitelist, newPlayer) \/ this.spaceHostID = newPlayerID
            THEN Result([this EXCEPT !.players = push(@, newPlayer)], <<TRUE>>, "allowed")
            ELSE Result(this, <<FALSE>>, "denied")
       ELSE Result(this, <<FALSE>>, "noHost")
  ELSE Result(this, <<FALSE>>, "unknown")

addPlayer(this, newPlayerID) ==
  LET newPlayer == playerFromID(newPlayerID) IN
  IF newPlayer # Undefined
  THEN IF includes(this.players, newPlayer)
       THEN Result(this, <<TRUE>>, "already")
       ELSE IF this.isPrivate = FALSE
       THEN Result([this EXCEPT !.players = push(@, newPlayer)], <<TRUE>>, "public")
       ELSE IF this.spaceHostID # Null
       THEN IF playerFromID(this.spaceHostID) = Undefined
            THEN Result([publicizeSpace(this) EXCEPT !.players = push(@, newPlayer)],
                        <<TRUE>>, "hostGone")
            ELSE IF includes(this.whitelist, newPlayer) \/ this.spaceHostID = newPlayerID
            THEN Result([this EXCEPT !.players = push(@, newPlayer)], <<TRUE>>, "allowed")
            ELSE Result(this, <<FALSE>>, "denied")
       ELSE Result(this, <<FALSE>>, "noHost")
  ELSE Result(this, <<FALSE>>, "unknown")

removePlayer(this, playerID) ==
  LET player == playerFromID(playerID) IN
  IF player # Undefined
  THEN Result([this EXCEPT !.players = SelectSeq(@, LAMBDA p : p # player)],
              Void, "removed")
  ELSE Result(this, Void, "unknown")

\* addPlayerToWhiteList that never pushes.
addPlayerToWhiteList_noPush(this, newPlayerID) ==
  LET newPlayer == playerFromID(newPlayerID) IN
  IF newPlayer # Undefined
  THEN IF includes(this.whitelist, newPlayer)
       THEN Result(this, Void, "already")
       ELSE Result(this, Void, "added")
  ELSE Result(this, Void, "unknown")

\* addPlayerToWhiteList without the test that the player is on the list.
addPlayerToWhiteList_alwaysPush(this, newPlayerID) ==
  LET newPlayer == playerFromID(newPlayerID) IN
  IF newPlayer # Undefined
  THEN Result([this EXCEPT !.whitelist = push(@, newPlayer)], Void, "added")
  ELSE Result(this, Void, "unknown")

addPlayerToWhiteList(this, newPlayerID) ==
  LET newPlayer == playerFromID(newPlayerID) IN
  IF newPlayer # Undefined
  THEN IF includes(this.whitelist, newPlayer)
       THEN Result(this, Void, "already")
       ELSE Result([this EXCEPT !.whitelist = push(@, newPlayer)], Void, "added")
  ELSE Result(this, Void, "unknown")

removePlayerFromWhiteList(this, playerID) ==
  LET player == playerFromID(playerID) IN
  IF player # Undefined
  THEN Result([this EXCEPT !.whitelist = SelectSeq(@, LAMBDA p : p # player)],
              Void, "removed")
  ELSE Result(this, Void, "unknown")

\* updateSpaceHost that publicizes only a private space.
updateSpaceHost_releaseOnlyWhenPrivate(this, newHostID) ==
  IF newHostID # Null
  THEN IF this.spaceHostID = Null
       THEN Result([disconnectAllPlayersExceptP([this EXCEPT !.spaceHostID = newHostID],
                                                newHostID)
                      EXCEPT !.isPrivate = TRUE],
                   <<TRUE>>, "claimed")
       ELSE Result(this, <<FALSE>>, "taken")
  ELSE IF this.isPrivate
       THEN Result(publicizeSpace(this), <<TRUE>>, "publicized")
       ELSE Result(this, <<TRUE>>, "publicized")

\* updateSpaceHost without the test that the space has no host yet.
updateSpaceHost_takeover(this, newHostID) ==
  IF newHostID # Null
  THEN Result([disconnectAllPlayersExceptP([this EXCEPT !.spaceHostID = newHostID],
                                           newHostID)
                 EXCEPT !.isPrivate = TRUE],
              <<TRUE>>, "claimed")
  ELSE Result(publicizeSpace(this), <<TRUE>>, "publicized")

updateSpaceHost(this, newHostID) ==
  IF newHostID # Null
  THEN IF this.spaceHostID = Null
       THEN Result([disconnectAllPlayersExceptP([this EXCEPT !.spaceHostID = newHostID],
                                                newHostID)
                      EXCEPT !.isPrivate = TRUE],
                   <<TRUE>>, "claimed")
       ELSE Result(this, <<FALSE>>, "taken")
  ELSE Result(publicizeSpace(this), <<TRUE>>, "publicized")

updatePresenter(this, newPresenterID) ==
  Result([this EXCEPT !.presenterID = newPresenterID], Void, "set")

updateWhitelist(this, newWhitelist) ==
  Result([this EXCEPT !.whitelist =
            SelectSeq(newWhitelist, LAMBDA playerID : playerFromID(playerID) # Undefined)],
         Void, "replaced")

\* ------------------------------------------------------------- history
\* What the last step called on the controller: method, arguments, result,
\* and the privacy flag the call found. A caller reads the result and then
\* drops it (Return) before the next call is made.
Call(op, id, ids, r, wasPrivate) ==
  [op |-> op, id |-> id, ids |-> ids, ret |-> r.ret, path |-> r.path,
   wasPrivate |-> wasPrivate]
NoCall == [op |-> "none", id |-> Null, ids |-> <<>>, ret |-> Void, path |-> "none",
           wasPrivate |-> FALSE]
\* A response envelope: the handler that built it, the space and player of
\* its request, isOK, and whether it carries a message and a response.
Envelope(handler, spaceID, playerID, isOK, message, response) ==
  [handler |-> handler, spaceID |-> spaceID, playerID |-> playerID, isOK |-> isOK,
   message |-> message, response |-> response]
NoEnvelope == Envelope("none", "", Null, TRUE, FALSE, FALSE)
NoScenario == [pc |-> 0, H |-> Null, X |-> Null, Y |-> Null]
Idle == last.op = "none" /\ envelope.handler = "none"

Init ==
  /\ townPlayers = {}
  /\ departed = {}
  /\ spaces = [s \in SpaceIDs |-> NewController]
  /\ last = NoCall
  /\ envelope = NoEnvelope
  /\ scenario = NoScenario

\* ------------------------------------------------------- the town
PlayerJoinsTown(id) ==
  /\ Idle
  /\ id \notin townPlayers
  /\ id \notin departed
  /\ townPlayers' = townPlayers \cup {id}
  /\ UNCHANGED <<departed, spaces, last, envelope, scenario>>

PlayerLeavesTown(id) ==
  /\ Idle
  /\ id \in townPlayers
  /\ townPlayers' = townPlayers \ {id}
  /\ departed' = departed \cup {id}
  /\ UNCHANGED <<spaces, last, envelope, scenario>>

\* The caller has read the result of its call.
Returns ==
  /\ ~Idle
  /\ last' = NoCall
  /\ envelope' = NoEnvelope
  /\ UNCHANGED <<townPlayers, departed, spaces>>

Return == Returns /\ UNCHANGED scenario

\* --------------------------------------- direct calls on a controller
\* A caller with no call outstanding calls a method of the controller of s.
Apply(s, op, id, ids, r) ==
  /\ Idle
  /\ spaces' = [spaces EXCEPT ![s] = r.this]
  /\ last' = Call(op, id, ids, r, spaces[s].isPrivate)
  /\ envelope' = NoEnvelope
  /\ UNCHANGED <<townPlayers, departed, scenario>>

CallAddPlayer(s, id) ==
  /\ spaces[s] # NoController
  /\ Apply(s, "addPlayer", id, <<>>, addPlayer(spaces[s], id))

CallRemovePlayer(s, id) ==
  /\ spaces[s] # NoController
  /\ Apply(s, "removePlayer", id, <<>>, removePlayer(spaces[s], id))

CallAddPlayerToWhiteList(s, id) ==
  /\ spaces[s] # NoController
  /\ Apply(s, "addPlayerToWhiteList", id, <<>>, addPlayerToWhiteList(spaces[s], id))

CallRemovePlayerFromWhiteList(s, id) ==
  /\ spaces[s] # NoController
  /\ Apply(s, "removePlayerFromWhiteList", id, <<>>,
           removePlayerFromWhiteList(spaces[s], id))

CallUpdateSpaceHost(s, id) ==
  /\ spaces[s] # NoController
  /\ Apply(s, "updateSpaceHost", id, <<>>, updateSpaceHost(spaces[s], id))

CallUpdatePresenter(s, id) ==
  /\ spaces[s] # NoController
  /\ Apply(s, "updatePresenter", id, <<>>, updatePresenter(spaces[s], id))

CallUpdateWhitelist(s, ids) ==
  /\ spaces[s] # NoController
  /\ Apply(s, "updateWhitelist", Null, ids, updateWhitelist(spaces[s], ids))

Next ==
  \/ \E id \in PlayerIDs : PlayerJoinsTown(id)
  \/ \E id \in PlayerIDs : PlayerLeavesTown(id)
  \/ \E s \in SpaceIDs, id \in PlayerIDs : CallAddPlayer(s, id)
  \/ \E s \in SpaceIDs, id \in PlayerIDs : CallRemovePlayer(s, id)
  \/ \E s \in SpaceIDs, id \in PlayerIDs : CallAddPlayerToWhiteList(s, id)
  \/ \E s \in SpaceIDs, id \in PlayerIDs : CallRemovePlayerFromWhiteList(s, id)
  \/ \E s \in SpaceIDs, id \in PlayerIDs \cup {Null} : CallUpdateSpaceHost(s, id)
  \/ \E s \in SpaceIDs, id \in PresenterInputs : CallUpdatePresenter(s, id)
  \/ \E s \in SpaceIDs, ids \in IDLists : CallUpdateWhitelist(s, ids)
  \/ Return

Spec == Init /\ [][Next]_vars

\* ------------------------------------------ CoveySpacesStore, the town
\* The store and the town controller are not among the files modelled here;
\* they follow spec.md 4.2, 4.3 and 6.
getControllerForSpace(coveySpaceID) ==
  IF coveySpaceID \in SpaceIDs THEN spaces[coveySpaceID] ELSE NoController

getControllerForTown(coveyTownID) == coveyTownID \in TownIDs

\* A new public space under the id, unless the store holds one already.
createSpace(coveySpaceID) ==
  IF coveySpaceID \in SpaceIDs /\ spaces[coveySpaceID] = NoController
  THEN [spaces EXCEPT ![coveySpaceID] = NewController]
  ELSE spaces

disbandSpace(coveySpaceID) ==
  IF coveySpaceID \in SpaceIDs
  THEN [spaces EXCEPT ![coveySpaceID] = NoController]
  ELSE spaces

\* A call on the store or the town yields the store after the call and the
\* controller call it made (NoCall when it found no space).
Outcome(newSpaces, call) == [spaces |-> newSpaces, call |-> call]

\* CoveyTownController.joinSpace: the admit into the space, when there is one.
joinSpace(playerID, coveySpaceID) ==
  IF getControllerForSpace(coveySpaceID) = NoController
  THEN Outcome(spaces, NoCall)
  ELSE LET r == addPlayer(spaces[coveySpaceID], playerID) IN
       Outcome([spaces EXCEPT ![coveySpaceID] = r.this],
               Call("addPlayer", playerID, <<>>, r, spaces[coveySpaceID].isPrivate))

\* CoveySpacesStore.updateSpace: host, then presenter, then whitelist, when
\* there is such a space; the call reported is the host update.
updateSpace(coveySpaceID, newHost, newPresenter, newWhitelist) ==
  IF getControllerForSpace(coveySpaceID) = NoController
  THEN Outcome(spaces, NoCall)
  ELSE LET this == spaces[coveySpaceID]
           hosted == updateSpaceHost(this, newHost)
           presented == updatePresenter(hosted.this, newPresenter)
           listed == updateWhitelist(presented.this, newWhitelist)
       IN Outcome([spaces EXCEPT ![coveySpaceID] = listed.this],
                  Call("updateSpace", newHost, newWhitelist, hosted, this.isPrivate))

\* ----------------------------------------------------- request handlers
\* A handler runs for a caller with no call outstanding; it leaves the call
\* it made on a controller (if any) in last and its response in envelope.
Handle(newSpaces, call, env) ==
  /\ Idle
  /\ spaces' = newSpaces
  /\ last' = call
  /\ envelope' = env
  /\ UNCHANGED <<townPlayers, departed, scenario>>

spaceCreateHandler(coveySpaceID) ==
  IF coveySpaceID = ""
  THEN Handle(spaces, NoCall, Envelope("create", coveySpaceID, Null, FALSE, TRUE, FALSE))
  ELSE Handle(createSpace(coveySpaceID), NoCall,
              Envelope("create", coveySpaceID, Null, TRUE, TRUE, FALSE))

spaceJoinHandler(coveyTownID, playerID, coveySpaceID) ==
  IF ~getControllerForTown(coveyTownID)
  THEN Handle(spaces, NoCall, Envelope("join", coveySpaceID, playerID, FALSE, TRUE, FALSE))
  ELSE LET joined == joinSpace(playerID, coveySpaceID) IN
       IF getControllerForSpace(coveySpaceID) = NoController
       THEN Handle(joined.spaces, joined.call,
                   Envelope("join", coveySpaceID, playerID, FALSE, TRUE, FALSE))
       ELSE Handle(joined.spaces, joined.call,
                   Envelope("join", coveySpaceID, playerID, TRUE, FALSE, TRUE))

spaceListHandler(coveyTownID) ==
  Handle(spaces, NoCall, Envelope("list", "", Null, TRUE, FALSE, TRUE))

\* spaceClaimHandler whose 'No such space' answer carries a response and no
\* message.
spaceClaimHandler_noMessage(coveySpaceID, newHostPlayerID) ==
  IF getControllerForSpace(coveySpaceID) = NoController
  THEN Handle(spaces, NoCall, Envelope("claim", coveySpaceID, newHostPlayerID,
                                       FALSE, FALSE, TRUE))
  ELSE LET r == updateSpaceHost(spaces[coveySpaceID], newHostPlayerID) IN
       Handle([spaces EXCEPT ![coveySpaceID] = r.this],
              Call("updateSpaceHost", newHostPlayerID, <<>>, r,
                   spaces[coveySpaceID].isPrivate),
              Envelope("claim", coveySpaceID, newHostPlayerID, TRUE, TRUE, FALSE))

spaceClaimHandler(coveySpaceID, newHostPlayerID) ==
  IF getControllerForSpace(coveySpaceID) = NoController
  THEN Handle(spaces, NoCall, Envelope("claim", coveySpaceID, newHostPlayerID,
                                       FALSE, TRUE, FALSE))
  ELSE LET r == updateSpaceHost(spaces[coveySpaceID], newHostPlayerID) IN
       Handle([spaces EXCEPT ![coveySpaceID] = r.this],
              Call("updateSpaceHost", newHostPlayerID, <<>>, r,
                   spaces[coveySpaceID].isPrivate),
              Envelope("claim", coveySpaceID, newHostPlayerID, TRUE, TRUE, FALSE))

spaceDisbandHandler(coveySpaceID) ==
  Handle(disbandSpace(coveySpaceID), NoCall,
         Envelope("disband", coveySpaceID, Null, TRUE, TRUE, TRUE))

spaceUpdateHandler(coveySpaceID, newHost, newPresenter, newWhitelist) ==
  LET updated == updateSpace(coveySpaceID, newHost, newPresenter, newWhitelist) IN
  Handle(updated.spaces, updated.call,
         Envelope("update", coveySpaceID, newHost, TRUE, TRUE, TRUE))

HandlerNext ==
  \/ \E id \in PlayerIDs : PlayerJoinsTown(id)
  \/ \E id \in PlayerIDs : PlayerLeavesTown(id)
  \/ \E s \in RequestSpaceIDs : spaceCreateHandler(s)
  \/ \E t \in RequestTownIDs, id \in PlayerIDs, s \in RequestSpaceIDs :
       spaceJoinHandler(t, id, s)
  \/ \E t \in RequestTownIDs : spaceListHandler(t)
  \/ \E s \in RequestSpaceIDs, id \in PlayerIDs : spaceClaimHandler(s, id)
  \/ \E s \in RequestSpaceIDs : spaceDisbandHandler(s)
  \/ \E s \in RequestSpaceIDs, h \in PlayerIDs \cup {Null}, p \in PresenterInputs,
        w \in RequestIDLists : spaceUpdateHandler(s, h, p, w)
  \/ Return

HandlerSpec == Init /\ [][HandlerNext]_vars

\* ------------------------------------------- the end-to-end scenario
\* create S1; claimHost(H); admit(H); admit(X); whitelistAdd(X); admit(X);
\* releaseHost(); admit(Y), for players H, X, Y of the town with X # H.
\* scenario.pc numbers the call being made or just made; Proceed moves on to
\* the next one when the caller has read the result.
ScenarioSpace == "S1"

ScenarioInit ==
  /\ townPlayers = PlayerIDs
  /\ departed = {}
  /\ spaces = [s \in SpaceIDs |-> NoController]
  /\ last = NoCall
  /\ envelope = NoEnvelope
  /\ scenario \in {[pc |-> 1, H |-> h, X |-> x, Y |-> y] :
                     h \in PlayerIDs, x \in PlayerIDs, y \in PlayerIDs}
  /\ scenario.X # scenario.H

Proceed ==
  /\ scenario.pc \in 1..7
  /\ Returns
  /\ scenario' = [scenario EXCEPT !.pc = @ + 1]

ScenarioNext ==
  \/ scenario.pc = 1 /\ spaceCreateHandler(ScenarioSpace)
  \/ scenario.pc = 2 /\ CallUpdateSpaceHost(ScenarioSpace, scenario.H)
  \/ scenario.pc = 3 /\ CallAddPlayer(ScenarioSpace, scenario.H)
  \/ scenario.pc = 4 /\ CallAddPlayer(ScenarioSpace, scenario.X)
  \/ scenario.pc = 5 /\ CallAddPlayerToWhiteList(ScenarioSpace, scenario.X)
  \/ scenario.pc = 6 /\ CallAddPlayer(ScenarioSpace, scenario.X)
  \/ scenario.pc = 7 /\ CallUpdateSpaceHost(ScenarioSpace, Null)
  \/ scenario.pc = 8 /\ CallAddPlayer(ScenarioSpace, scenario.Y)
  \/ Proceed

ScenarioSpec == ScenarioInit /\ [][ScenarioNext]_vars

\* ------------------------------------------------------------ properties
Resolves(id) == id \in townPlayers
\* The step is a call of method op with player id on the controller of s.
Called(op, id) == last.op = "none" /\ last'.op = op /\ last'.id = id

\* C1: in every reachable state of a space, isPrivate holds iff the space has
\* a host (spaceHostID is not null).
C1_PrivateIffHost ==
  \A s \in SpaceIDs :
    spaces[s] # NoController =>
      (spaces[s].isPrivate <=> spaces[s].spaceHostID # Null)

\* A claim has just made the space private.
C1_Witness ==
  \E s \in SpaceIDs :
    /\ last.op = "updateSpaceHost" /\ last.path = "claimed"
    /\ spaces[s].isPrivate /\ spaces[s].spaceHostID = last.id

\* C2: admitting a player that is not the host, not whitelisted and not yet
\* a member into a private space whose host still resolves returns false
\* and leaves the players unchanged.
C2_DeniedAdmitChangesNothing ==
  [][\A s \in SpaceIDs, id \in PlayerIDs :
       ( /\ Called("addPlayer", id)
         /\ spaces[s].isPrivate
         /\ Resolves(spaces[s].spaceHostID)
         /\ id # spaces[s].spaceHostID
         /\ id \notin Members(spaces[s].whitelist)
         /\ id \notin Members(spaces[s].players) )
       => /\ last'.ret = <<FALSE>>
          /\ spaces'[s].players = spaces[s].players]_vars

\* A resolvable player was turned away from a private space.
C2_Witness ==
  \E s \in SpaceIDs :
    /\ last.op = "addPlayer" /\ last.path = "denied" /\ last.ret = <<FALSE>>
    /\ Resolves(last.id) /\ Resolves(spaces[s].spaceHostID)
    /\ spaces[s].isPrivate /\ last.id \notin Members(spaces[s].players)

\* C3 as stated: admitting any resolvable player into a private space whose
\* host no longer resolves makes the space public (host, presenter and
\* whitelist cleared), adds the player and returns true.
C3_AbandonedSpaceOpensForAnyone ==
  [][\A s \in SpaceIDs, id \in PlayerIDs :
       ( /\ Called("addPlayer", id)
         /\ spaces[s].isPrivate
         /\ ~Resolves(spaces[s].spaceHostID)
         /\ Resolves(id) )
       => /\ last'.ret = <<TRUE>>
          /\ ~spaces'[s].isPrivate
          /\ spaces'[s].spaceHostID = Null
          /\ spaces'[s].presenterID = Null
          /\ spaces'[s].whitelist = <<>>
          /\ id \in Members(spaces'[s].players)]_vars

\* C3 amended: the same, for a resolvable player that is not yet a member
\* (the admit of a member returns true before the host is looked at).
C3_AbandonedSpaceOpensForNewcomer ==
  [][\A s \in SpaceIDs, id \in PlayerIDs :
       ( /\ Called("addPlayer", id)
         /\ spaces[s].isPrivate
         /\ ~Resolves(spaces[s].spaceHostID)
         /\ Resolves(id)
         /\ id \notin Members(spaces[s].players) )
       => /\ last'.ret = <<TRUE>>
          /\ ~spaces'[s].isPrivate
          /\ spaces'[s].spaceHostID = Null
          /\ spaces'[s].presenterID = Null
          /\ spaces'[s].whitelist = <<>>
          /\ id \in Members(spaces'[s].players)]_vars

\* A player that was not whitelisted got into a space found private: the
\* admit publicized it.
C3_Witness ==
  \E s \in SpaceIDs :
    /\ last.op = "addPlayer" /\ last.path = "hostGone" /\ last.wasPrivate
    /\ last.ret = <<TRUE>> /\ ~spaces[s].isPrivate
    /\ last.id \in Members(spaces[s].players)

\* C4: a claim with a non-null id on a space that is already private returns
\* false and leaves host, players, whitelist and presenter unchanged,
\* whoever claims (the host itself included).
C4_ClaimOnPrivateChangesNothing ==
  [][\A s \in SpaceIDs, id \in PlayerIDs :
       ( /\ Called("updateSpaceHost", id)
         /\ spaces[s].isPrivate )
       => /\ last'.ret = <<FALSE>>
          /\ spaces'[s].spaceHostID = spaces[s].spaceHostID
          /\ spaces'[s].players = spaces[s].players
          /\ spaces'[s].whitelist = spaces[s].whitelist
          /\ spaces'[s].presenterID = spaces[s].presenterID]_vars

\* The host itself claimed its own private space again, and was refused.
C4_Witness ==
  \E s \in SpaceIDs :
    /\ last.op = "updateSpaceHost" /\ last.path = "taken" /\ last.wasPrivate
    /\ last.id = spaces[s].spaceHostID /\ last.ret = <<FALSE>>

\* C5: releasing the host of a private space clears presenter and whitelist
\* and makes the space public; a public space stays public until a claim
\* succeeds; and in a public space the admit of any resolvable player
\* returns true and the player is a member afterwards. (Together: after a
\* release every admit of a resolvable player succeeds until the next claim.)
C5_ReleaseOpensTheSpace ==
  [][\A s \in SpaceIDs :
       /\ (Called("updateSpaceHost", Null) /\ spaces[s].isPrivate)
            => /\ spaces'[s].presenterID = Null
               /\ spaces'[s].whitelist = <<>>
               /\ ~spaces'[s].isPrivate
       /\ (~spaces[s].isPrivate /\ spaces'[s].isPrivate)
            => /\ last'.op = "updateSpaceHost" /\ last'.id # Null
               /\ last'.ret = <<TRUE>>
       /\ \A id \in PlayerIDs :
            (Called("addPlayer", id) /\ ~spaces[s].isPrivate /\ Resolves(id))
              => /\ last'.ret = <<TRUE>>
                 /\ id \in Members(spaces'[s].players)]_vars

\* The host of a private space has just been released.
C5_Witness ==
  \E s \in SpaceIDs :
    /\ last.op = "updateSpaceHost" /\ last.id = Null /\ last.wasPrivate
    /\ ~spaces[s].isPrivate /\ spaces[s].whitelist = <<>>

\* C6: after updateWhitelist(ids) the whitelist holds exactly the ids of the
\* list that resolve, each of them once.
C6_ReplaceYieldsTheResolvableSet ==
  \A s \in SpaceIDs :
    last.op = "updateWhitelist" =>
      /\ Members(spaces[s].whitelist) = {id \in Members(last.ids) : Resolves(id)}
      /\ Len(spaces[s].whitelist) = Cardinality(Members(spaces[s].whitelist))

\* C7: in the scenario, admit(H) returns true with members {H}; the first
\* admit(X) returns false; after whitelistAdd(X) the second admit(X) returns
\* true with members {H, X}; after releaseHost() the whitelist is empty; and
\* admit(Y) returns true.
Done(n, op) == scenario.pc = n /\ last.op = op
C7_Scenario ==
  LET this == spaces[ScenarioSpace] IN
  /\ Done(3, "addPlayer") =>
       last.ret = <<TRUE>> /\ Members(this.players) = {scenario.H}
  /\ Done(4, "addPlayer") =>
       last.ret = <<FALSE>> /\ Members(this.players) = {scenario.H}
  /\ Done(6, "addPlayer") =>
       last.ret = <<TRUE>> /\ Members(this.players) = {scenario.H, scenario.X}
  /\ Done(7, "updateSpaceHost") => this.whitelist = <<>>
  /\ Done(8, "addPlayer") =>
       last.ret = <<TRUE>> /\ scenario.Y \in Members(this.players)

\* The scenario has run to its end with three different players.
C7_Witness ==
  /\ Done(8, "addPlayer")
  /\ Cardinality({scenario.H, scenario.X, scenario.Y}) = 3
  /\ Members(spaces[ScenarioSpace].players) = {scenario.H, scenario.X, scenario.Y}

\* C8: once a space is disbanded its lookup finds nothing, and every join,
\* claim or update request for it is answered with isOK = false until the
\* space is created again. (Every space exists at first, so a space the store
\* does not hold has been disbanded.)
C8_DisbandedSpaceIsNotFound ==
  \A s \in SpaceIDs :
    /\ (envelope.handler = "disband" /\ envelope.spaceID = s)
         => getControllerForSpace(s) = NoController
    /\ ( /\ getControllerForSpace(s) = NoController
         /\ envelope.handler \in {"join", "claim", "update"}
         /\ envelope.spaceID = s )
         => envelope.isOK = FALSE

\* C9: the claim handler answers isOK = false when updateSpaceHost returned
\* false, and isOK = true only when the claim took effect.
C9_ClaimHandlerReportsRefusal ==
  (envelope.handler = "claim" /\ last.op = "updateSpaceHost")
    => (envelope.isOK <=> last.ret = <<TRUE>>)

\* C10: for a requesting player of the town, the join handler answers
\* isOK = false when the admit is denied, and isOK = true only when the
\* player is a member of the space afterwards.
C10_JoinHandlerReportsDenial ==
  (envelope.handler = "join" /\ Resolves(envelope.playerID)) =>
    /\ (last.op = "addPlayer" /\ last.path = "denied") => envelope.isOK = FALSE
    /\ envelope.isOK =>
         envelope.playerID \in Members(getControllerForSpace(envelope.spaceID).players)

\* C11: every envelope a handler returns with isOK = false carries a message
\* and no response.
C11_FailureCarriesMessageOnly ==
  (envelope.handler # "none" /\ envelope.isOK = FALSE)
    => (envelope.message /\ ~envelope.response)

\* A claim for a space the store does not hold was answered with a failure.
C11_Witness ==
  /\ envelope.handler = "claim" /\ envelope.isOK = FALSE
  /\ envelope.spaceID \in SpaceIDs
  /\ getControllerForSpace(envelope.spaceID) = NoController

\* C13: updateSpaceHost(id) with a non-null id on a public space returns true
\* and leaves the space private with host id and no member other than id.
C13_ClaimEvictsEveryoneElse ==
  [][\A s \in SpaceIDs, id \in PlayerIDs :
       ( /\ Called("updateSpaceHost", id)
         /\ ~spaces[s].isPrivate )
       => /\ last'.ret = <<TRUE>>
          /\ spaces'[s].spaceHostID = id
          /\ spaces'[s].isPrivate
          /\ Members(spaces'[s].players) \subseteq {id}]_vars

\* C14: a call of updateSpaceHost, updatePresenter, addPlayer,
\* addPlayerToWhiteList or updateWhitelist with an id that does not resolve in
\* the town does not bring that id into spaceHostID, presenterID, the
\* whitelist or the players of the space.
C14_UnresolvedIdIsNotStored ==
  [][\A s \in SpaceIDs, id \in PlayerIDs :
       ( /\ last.op = "none"
         /\ last'.op \in {"updateSpaceHost", "updatePresenter", "addPlayer",
                          "addPlayerToWhiteList", "updateWhitelist"}
         /\ (last'.id = id \/ includes(last'.ids, id))
         /\ ~Resolves(id) )
       => /\ spaces'[s].spaceHostID = id => spaces[s].spaceHostID = id
          /\ spaces'[s].presenterID = id => spaces[s].presenterID = id
          /\ includes(spaces'[s].whitelist, id) => includes(spaces[s].whitelist, id)
          /\ includes(spaces'[s].players, id) => includes(spaces[s].players, id)]_vars

\* C15 (as stated): updateSpaceHost(null) on a public space returns true and
\* changes no field of the space.
C15_ReleaseOnPublicIsNoOp ==
  [][\A s \in SpaceIDs :
       ( /\ Called("updateSpaceHost", Null)
         /\ ~spaces[s].isPrivate )
       => /\ last'.ret = <<TRUE>>
          /\ spaces'[s] = spaces[s]]_vars

\* C15 (amended): updateSpaceHost(null) on a public space returns true, leaves
\* spaceHostID (null), the players and isPrivate (false) as they were, and
\* resets presenterID to null and the whitelist to empty.
C15_ReleaseOnPublicResets ==
  [][\A s \in SpaceIDs :
       ( /\ Called("updateSpaceHost", Null)
         /\ ~spaces[s].isPrivate )
       => /\ last'.ret = <<TRUE>>
          /\ spaces'[s].spaceHostID = spaces[s].spaceHostID
          /\ spaces'[s].players = spaces[s].players
          /\ spaces'[s].isPrivate = spaces[s].isPrivate
          /\ spaces'[s].presenterID = Null
          /\ spaces'[s].whitelist = <<>>]_vars

\* The host of a public space that has a member has just been released.
C15_Witness ==
  \E s \in SpaceIDs :
    /\ last.op = "updateSpaceHost" /\ last.id = Null /\ ~last.wasPrivate
    /\ last.ret = <<TRUE>>
    /\ spaces[s].players # <<>> /\ spaces[s].presenterID = Null

\* C16: after removePlayer(id) the id is not among the players of the space,
\* whether or not it still resolves in the town; spaceHostID, presenterID and
\* the whitelist are as before, and so are the players when id was not one
\* of them.
C16_EvictRemovesTheMember ==
  [][\A s \in SpaceIDs, id \in PlayerIDs :
       Called("removePlayer", id)
       => /\ ~includes(spaces'[s].players, id)
          /\ ~includes(spaces[s].players, id)
               => spaces'[s].players = spaces[s].players
          /\ spaces'[s].spaceHostID = spaces[s].spaceHostID
          /\ spaces'[s].presenterID = spaces[s].presenterID
          /\ spaces'[s].whitelist = spaces[s].whitelist]_vars

\* C17 (as stated): addPlayer(id) of an id that is among the players returns
\* true and changes no field of the space.
C17_AdmitOfMemberSucceeds ==
  [][\A s \in SpaceIDs, id \in PlayerIDs :
       ( /\ Called("addPlayer", id)
         /\ includes(spaces[s].players, id) )
       => /\ last'.ret = <<TRUE>>
          /\ spaces'[s] = spaces[s]]_vars

\* C17 (amended): addPlayer(id) of an id that is among the players changes no
\* field of the space; it returns true when id resolves in the town and false
\* when it does not.
C17_AdmitOfMemberChangesNothing ==
  [][\A s \in SpaceIDs, id \in PlayerIDs :
       ( /\ Called("addPlayer", id)
         /\ includes(spaces[s].players, id) )
       => /\ last'.ret = IF Resolves(id) THEN <<TRUE>> ELSE <<FALSE>>
          /\ spaces'[s] = spaces[s]]_vars

\* A member has just been admitted again to a private space whose host has
\* left the town.
C17_Witness ==
  \E s \in SpaceIDs :
    /\ last.op = "addPlayer" /\ last.path = "already" /\ last.ret = <<TRUE>>
    /\ includes(spaces[s].players, last.id)
    /\ spaces[s].isPrivate /\ ~Resolves(spaces[s].spaceHostID)

\* C18: whenever a step ends with the space private, every player of the
\* space other than its host was a player before the step (it has been one
\* since the space became private, or the step is the claim that made the
\* space private), or the step is a successful addPlayer of that player, who
\* was on the whitelist when the call was made.
C18_PrivateMembersWereAdmitted ==
  [][\A s \in SpaceIDs, m \in PlayerIDs :
       ( /\ spaces'[s].isPrivate
         /\ includes(spaces'[s].players, m)
         /\ m # spaces'[s].spaceHostID )
       => \/ includes(spaces[s].players, m)
          \/ /\ Called("addPlayer", m)
             /\ last'.ret = <<TRUE>>
             /\ spaces[s].isPrivate
             /\ includes(spaces[s].whitelist, m)]_vars

\* A whitelisted player who is not the host has just been admitted to a
\* private space.
C18_Witness ==
  \E s \in SpaceIDs :
    /\ last.op = "addPlayer" /\ last.path = "allowed" /\ last.wasPrivate
    /\ last.id # spaces[s].spaceHostID
    /\ spaces[s].isPrivate
    /\ includes(spaces[s].players, last.id)

\* C19: a second addPlayerToWhiteList(id) right after the first leaves the
\* whitelist as the first left it, and the call adds no entry for an id that
\* is on the list; the same for a second removePlayerFromWhiteList(id); and
\* either call with an id that does not resolve in the town leaves the
\* whitelist as it was.
C19_WhitelistEditsAreIdempotent ==
  [][\A s \in SpaceIDs, id \in PlayerIDs :
       /\ Called("addPlayerToWhiteList", id)
            => /\ addPlayerToWhiteList(spaces'[s], id).this.whitelist
                    = spaces'[s].whitelist
               /\ includes(spaces[s].whitelist, id)
                    => spaces'[s].whitelist = spaces[s].whitelist
               /\ ~Resolves(id) => spaces'[s].whitelist = spaces[s].whitelist
       /\ Called("removePlayerFromWhiteList", id)
            => /\ removePlayerFromWhiteList(spaces'[s], id).this.whitelist
                    = spaces'[s].whitelist
               /\ ~Resolves(id) => spaces'[s].whitelist = spaces[s].whitelist]_vars

\* addPlayerToWhiteList has just been called for a player who was on the
\* whitelist already.
C19_Witness ==
  \E s \in SpaceIDs :
    /\ last.op = "addPlayerToWhiteList" /\ last.path = "already"
    /\ includes(spaces[s].whitelist, last.id)

\* C20: in every step, a space whose spaceHostID is not null before the step
\* has the same spaceHostID or null after it: the host never changes from
\* one player directly to another.
C20_NoForcedTakeover ==
  [][\A s \in SpaceIDs :
       spaces[s].spaceHostID # Null
         => spaces'[s].spaceHostID \in {spaces[s].spaceHostID, Null}]_vars

\* A player other than the host has just tried to claim a private space.
C20_Witness ==
  \E s \in SpaceIDs :
    /\ last.op = "updateSpaceHost" /\ last.id # Null
    /\ last.wasPrivate /\ last.ret = <<FALSE>>
    /\ spaces[s].spaceHostID # Null
    /\ last.id # spaces[s].spaceHostID

\* C21: after updateSpaceHost(h) returns true for an h that resolves in the
\* town, the players of the space are exactly h, whether or not h was one of
\* them before the call.
C21_ClaimLeavesExactlyTheClaimant ==
  [][\A s \in SpaceIDs, h \in PlayerIDs :
       ( /\ Called("updateSpaceHost", h)
         /\ Resolves(h)
         /\ last'.ret = <<TRUE>> )
       => /\ spaces'[s].players = <<h>>
          /\ Members(spaces'[s].players) = {h}]_vars

\* A player of the town has just claimed the space and is its only player.
C21_Witness ==
  \E s \in SpaceIDs :
    /\ last.op = "updateSpaceHost" /\ last.path = "claimed"
    /\ last.ret = <<TRUE>> /\ Resolves(last.id)
    /\ spaces[s].spaceHostID = last.id
    /\ spaces[s].players = <<last.id>>

====
